---------------------------- MODULE Spec2Model ----------------------------
(***************************************************************************)
(* gaming-api (src/server.js): a caching proxy in front of the CheapShark  *)
(* deal API.  The model covers the store directory (loadStores), the deal  *)
(* aggregator (fetchDeals), the per-currency cache, the GET /deals read    *)
(* path, the timers and the Steam metadata enricher (enrichWithSteamData). *)
(*                                                                         *)
(* Node runs one handler at a time: every action below is one run of a     *)
(* handler from the event that wakes it up to its next await (or return),  *)
(* together with the promise continuations that run in the same turn.      *)
(*                                                                         *)
(* Identifiers (storeID, gameID, steamAppID) are the decimal strings of    *)
(* the API, written here as the numbers they spell; a JS object keyed by   *)
(* them is a function whose DOMAIN is its key set, enumerated in ascending *)
(* key order like Object.keys/values/entries do for integer-like keys.     *)
(***************************************************************************)
EXTENDS Integers, Sequences, FiniteSets, TLC

VARIABLES
    storeMap,         \* storeID -> normalized store name           (line 30)
    defaultStoreIDs,  \* ids whose name is in DEFAULT_STORES        (line 31)
    cache,            \* currency -> [timestamp, data]              (line 20)
    steamMetaCache,   \* steamAppID -> "null" | "present"           (line 172)
    fetch,            \* call number -> frame of that fetchDeals call
    enrich,           \* pass number -> frame of that enrichWithSteamData call
    boot,             \* position of the startup IIFE               (338-364)
    preWarmCalls,     \* the calls Promise.all of line 161 waits for
    now,              \* Date.now(), in hours since the process started
    nextHourly,       \* when the setInterval of line 167 fires next
    response,         \* the body GET /deals sent in this step      (190-196)
    observed          \* what a test harness recorded of the call it watches

vars == <<storeMap, defaultStoreIDs, cache, steamMetaCache, fetch, enrich,
          boot, preWarmCalls, now, nextHourly, response, observed>>

---------------------------------------------------------------------------
(* Bounds of the model *)

\* calls of fetchDeals made in one behaviour
MaxCalls == 4
\* calls of enrichWithSteamData made in one behaviour
MaxPasses == 2
\* the while loop of line 75 stops at 100 pages; the model's loop at MaxPages
MaxPages == 2
\* the while loop of line 75 stops at 1000 unique games; the model's at TargetGames
TargetGames == 2
\* longest page the deal-list API answers with (pageSize 100 in line 78)
PageLen == 2
\* the clock stops at MaxTime
MaxTime == 2
\* throttled answers (429/403) the metadata API gives for one identifier of
\* one pass, where the retry ladder itself is not what is checked
MaxThrottles == 1

---------------------------------------------------------------------------
(* Program constants *)

\* line 21: 1000 * 60 * 60 ms = 1 hour
CACHE_TTL == 1
\* line 22
CURRENCIES == <<"USD", "CAD">>
\* line 258
MAX_ATTEMPTS == 30

\* String.prototype.toLowerCase on the store names that occur
ToLowerCase(name) ==
    CASE name = "Steam" -> "steam"
      [] name = " Humble Store" -> " humble store"
      [] name = "Fanatical" -> "fanatical"
      [] name = "GOG" -> "gog"
      [] OTHER -> name

\* String.prototype.trim on the store names that occur
Trim(name) ==
    CASE name = " Humble Store" -> "Humble Store"
      [] name = " humble store" -> "humble store"
      [] OTHER -> name

\* line 23
DEFAULT_STORES ==
    { Trim(ToLowerCase(s)) : s \in {"steam", "humble store", "fanatical"} }

\* lines 25-29
STORE_PRIORITY == ("steam" :> 1) @@ ("humble store" :> 2) @@ ("fanatical" :> 3)

\* STORE_PRIORITY[name]: the rank, or 0 for JS undefined (both are falsy)
StorePriority(name) ==
    IF name \in DOMAIN STORE_PRIORITY THEN STORE_PRIORITY[name] ELSE 0

\* a JS object without keys
EmptyObj == [k \in {} |-> 0]

\* deal.steamAppID of a deal that has none (null: falsy in line 91)
NullAppID == 0

---------------------------------------------------------------------------
(* What the upstream APIs answer *)

\* GET /stores: the store list (storeID, storeName)
StoreLists ==
    { << [storeID |-> 1, storeName |-> "Steam"],
         [storeID |-> 7, storeName |-> "GOG"],
         [storeID |-> 11, storeName |-> " Humble Store"],
         [storeID |-> 15, storeName |-> "Fanatical"] >> }

\* salePrice strings the deal list uses, and parseFloat of each, in cents
ParseFloat(s) ==
    CASE s = "5.00" -> 500
      [] s = "5" -> 500
      [] s = "9.99" -> 999
      [] s = "1.00" -> 100

RawDeal(g, s, p, a) ==
    [gameID |-> g, storeID |-> s, salePrice |-> p, steamAppID |-> a]

\* raw deals of the deal list: game 101 at every store (99 is a store id the
\* directory does not know), with and without a Steam app id; game 102
\* shares app id 10 with game 101
RawDeals ==
    { RawDeal(101, 1, "9.99", 10), RawDeal(101, 15, "9.99", 10),
      RawDeal(101, 11, "5.00", 10), RawDeal(101, 1, "5", 10),
      RawDeal(101, 7, "1.00", 10), RawDeal(101, 99, "1.00", 10),
      RawDeal(101, 1, "1.00", NullAppID),
      RawDeal(102, 15, "5.00", 10), RawDeal(102, 1, "9.99", 20),
      RawDeal(102, 1, "1.00", NullAppID) }

RECURSIVE SeqsUpTo(_, _)
SeqsUpTo(S, n) ==
    IF n = 0 THEN { <<>> }
    ELSE LET shorter == SeqsUpTo(S, n - 1)
         IN  shorter \cup { Append(q, x) : q \in {r \in shorter : Len(r) = n - 1}, x \in S }

\* every page of at most PageLen raw deals
AllPages == SeqsUpTo(RawDeals, PageLen)

\* the pages the deal list answers with when the whole system runs
SystemPages ==
    { << RawDeal(101, 1, "9.99", 10), RawDeal(102, 1, "9.99", 20) >>,
      << RawDeal(101, 11, "5.00", 10), RawDeal(101, 7, "1.00", 10) >> }

---------------------------------------------------------------------------
(* loadStores, lines 36-53 *)

\* lines 39-41: Object.fromEntries(res.data.map(...))
StoreMapOf(list) ==
    [id \in { list[i].storeID : i \in 1..Len(list) } |->
        LET i == CHOOSE j \in 1..Len(list) :
                    /\ list[j].storeID = id
                    /\ \A k \in (j+1)..Len(list) : list[k].storeID # id
        IN  Trim(ToLowerCase(list[i].storeName))]

RECURSIVE SortedSeq(_)
\* the elements of a set of numbers in ascending order
SortedSeq(S) ==
    IF S = {} THEN <<>>
    ELSE LET m == CHOOSE x \in S : \A y \in S : x <= y
         IN  <<m>> \o SortedSeq(S \ {m})

\* lines 44-46: Object.entries(storeMap).filter(...).map(([id]) => id)
DefaultStoreIDsOf(sm) ==
    SortedSeq({ id \in DOMAIN sm : sm[id] \in DEFAULT_STORES })

---------------------------------------------------------------------------
(* fetchDeals, lines 58-153 *)

\* line 88: storeMap[deal.storeID] || "unknown"
ResolveStore(sm, storeID) ==
    IF storeID \in DOMAIN sm THEN sm[storeID] ELSE "unknown"

\* a bug: one survivor per game and store
GameKey_PerStore(deal) == deal.gameID * 100 + deal.storeID

\* line 93: the key of uniqueGames
GameKey(deal) == deal.gameID

\* a bug: the tie-break on the store priority is left out
Replaces_PriceOnly(deal, current) ==
    ParseFloat(deal.salePrice) < ParseFloat(current.salePrice)

\* lines 109-118: whether `deal` replaces `current`, the survivor so far
Replaces(deal, current) ==
    LET dealPrice == ParseFloat(deal.salePrice)
        currentPrice == ParseFloat(current.salePrice)
    IN  \/ dealPrice < currentPrice
        \/ /\ dealPrice = currentPrice
           /\ StorePriority(ToLowerCase(deal.storeName))
                < StorePriority(ToLowerCase(current.storeName))

\* a bug: line 98 is left out
Eligible_AnyStore(deal) == deal.steamAppID # NullAppID

\* lines 91 and 98: the deals the loop body does not skip
Eligible(deal) ==
    /\ deal.steamAppID # NullAppID
    /\ StorePriority(ToLowerCase(deal.storeName)) # 0

\* lines 87-118, the loop body for one raw deal of the response
MergeDeal(uniqueGames, raw, sm, gen) ==
    LET deal == [gameID |-> raw.gameID, storeID |-> raw.storeID,
                 salePrice |-> raw.salePrice, steamAppID |-> raw.steamAppID,
                 storeName |-> ResolveStore(sm, raw.storeID),
                 steamMeta |-> "undefined", gen |-> gen]
        gameId == GameKey(deal)
    IN  IF ~Eligible(deal) THEN uniqueGames
        ELSE IF gameId \notin DOMAIN uniqueGames
             THEN (gameId :> deal) @@ uniqueGames
        ELSE IF Replaces(deal, uniqueGames[gameId])
             THEN [uniqueGames EXCEPT ![gameId] = deal]
        ELSE uniqueGames

RECURSIVE MergePage(_, _, _, _)
\* lines 87-119: for (const deal of response.data)
MergePage(uniqueGames, page, sm, gen) ==
    IF page = <<>> THEN uniqueGames
    ELSE MergePage(MergeDeal(uniqueGames, Head(page), sm, gen), Tail(page), sm, gen)

\* a bug: the loop goes on when the target is reached
LoopContinues_NoTarget(uniqueGames, page) == page < MaxPages

\* line 75: the loop test
LoopContinues(uniqueGames, page) ==
    Cardinality(DOMAIN uniqueGames) < TargetGames /\ page < MaxPages

\* line 127: Object.values(uniqueGames)
ObjectValues(obj) ==
    LET keys == SortedSeq(DOMAIN obj)
    IN  [i \in 1..Len(keys) |-> obj[keys[i]]]

\* lines 130-137: reattach the cached Steam metadata
AttachMeta(deal, smc) ==
    [deal EXCEPT !.steamMeta =
        IF deal.steamAppID \in DOMAIN smc THEN smc[deal.steamAppID] ELSE "null"]

\* lines 127-142: the block that replaces the cache entry
NewBlock(uniqueGames, smc, t) ==
    LET uniqueDeals == ObjectValues(uniqueGames)
    IN  [timestamp |-> t,
         data |-> [i \in 1..Len(uniqueDeals) |-> AttachMeta(uniqueDeals[i], smc)]]

\* a bug: the new deals are pushed onto the sequence of the entry in place
CachePut_InPlace(c, currency, block) ==
    IF currency \in DOMAIN c
    THEN [c EXCEPT ![currency] = [timestamp |-> block.timestamp,
                                  data |-> c[currency].data \o block.data]]
    ELSE (currency :> block) @@ c

\* line 145: cache[currency] = newBlock
CachePut(c, currency, block) == (currency :> block) @@ c

\* what the promise of an async function that ran to its end settles to
Returned == "fulfilled: undefined"

\* a call that has not been made yet
IdleFrame ==
    [pc |-> "idle", currency |-> "", storeIDs |-> <<>>, page |-> 0,
     uniqueGames |-> EmptyObj, settled |-> "pending", log |-> "none"]

\* a call that is over: its promise is settled, its last console line is
\* `log`, its local variables are gone
Over(frame, settled, log) ==
    [IdleFrame EXCEPT !.pc = "returned", !.currency = frame.currency,
                      !.settled = settled, !.log = log]

\* a bug: the catch block throws the error again
CatchFetchError_Rethrows(frame) ==
    [Over(frame, "rejected", "error") EXCEPT !.page = frame.page]

\* the catch block of lines 150-152 logs the error and the call returns;
\* page keeps the number of pages the call had merged
CatchFetchError(frame) ==
    [Over(frame, Returned, "error") EXCEPT !.page = frame.page]


\* the number of the next call of fetchDeals
NextGen(f) == 1 + Cardinality({ g \in 1..MaxCalls : f[g].pc # "idle" })

\* lines 75-76 and 126-148: the loop test, then either the next page request
\* or the end of the loop
EnterLoop(frame) ==
    IF LoopContinues(frame.uniqueGames, frame.page)
    THEN [frame EXCEPT !.pc = "awaitPage"]
    ELSE [frame EXCEPT !.pc = "swap"]

\* lines 139-145 for a call that left the loop in this step
CacheAfter(c, frame, smc, t) ==
    IF frame.pc = "swap"
    THEN CachePut(c, frame.currency, NewBlock(frame.uniqueGames, smc, t))
    ELSE c

\* lines 147-148 and the return
FrameAfter(frame) ==
    IF frame.pc = "swap" THEN Over(frame, Returned, "updated") ELSE frame

\* a bug: the deals merged so far are stored when a page request fails
CacheOnError_Partial(c, frame, smc, t) ==
    CachePut(c, frame.currency, NewBlock(frame.uniqueGames, smc, t))

\* lines 150-152: the catch block leaves the cache alone
CacheOnError(c, frame, smc, t) == c

\* a bug: the test of line 64 is left out
AbortNoStores_Missing(frame) == EnterLoop(frame)

\* lines 64-67: no store id, no request
AbortNoStores(frame) == Over(frame, Returned, "aborted")

\* lines 58-83: fetchDeals(currency, storeIDs) up to its first await.  Every
\* caller passes defaultStoreIDs, an array, so the test of line 59 is false.
\* w is the record of fetch, cache, enrich, boot and preWarmCalls; the
\* result is w after the call.
FetchDealsCall(w, currency, storeIDs, smc, t) ==
    LET g == NextGen(w.fetch)
        f0 == [IdleFrame EXCEPT !.currency = currency, !.storeIDs = storeIDs]
        f1 == IF Len(storeIDs) = 0 THEN AbortNoStores(f0) ELSE EnterLoop(f0)
    IN  [w EXCEPT !.fetch = [w.fetch EXCEPT ![g] = FrameAfter(f1)],
                  !.cache = CacheAfter(w.cache, f1, smc, t)]

\* lines 84-124: the answer to the page request of call g arrives
PageArrives(frame, page, sm, g) ==
    EnterLoop([frame EXCEPT
                 !.uniqueGames = MergePage(frame.uniqueGames, page, sm, g),
                 !.page = @ + 1])

---------------------------------------------------------------------------
(* enrichWithSteamData, lines 222-334 *)

\* a pass that has not been started yet
IdlePass ==
    [pc |-> "idle", steamDeals |-> <<>>, i |-> 0, attempts |-> 0, delay |-> 0,
     enrichedCount |-> 0, total |-> 0, outcome |-> "none"]

\* the number of the next call of enrichWithSteamData that finds work
NextPass(e) == 1 + Cardinality({ p \in 1..MaxPasses : e[p].pc # "idle" })

\* a deal object as a pass holds it: the call that made it (gen) and its game
\* name the object, steamAppID is the field the pass reads
Ref(deal) ==
    [gen |-> deal.gen, gameID |-> deal.gameID, steamAppID |-> deal.steamAppID]

\* deal.steamMeta = meta on the object `ref` names: visible in the cache when
\* the object is (still) in an entry
SetMeta(c, ref, meta) ==
    [cur \in DOMAIN c |->
        [c[cur] EXCEPT !.data =
            [k \in 1..Len(c[cur].data) |->
                IF c[cur].data[k].gen = ref.gen /\ c[cur].data[k].gameID = ref.gameID
                THEN [c[cur].data[k] EXCEPT !.steamMeta = meta]
                ELSE c[cur].data[k]]]]

\* whether steamMetaCache[id] holds real data (lines 230 and 247)
HasRealMeta(smc, id) == id \in DOMAIN smc /\ smc[id] # "null"

\* lines 224-231: the first deal of each Steam id, if its metadata is missing
SteamDealsOf(deals, smc) ==
    LET first(k) == \A j \in 1..(k-1) : deals[j].steamAppID # deals[k].steamAppID
        keep == { k \in 1..Len(deals) :
                    /\ deals[k].steamAppID # NullAppID
                    /\ first(k)
                    /\ ~HasRealMeta(smc, deals[k].steamAppID) }
        idx == SortedSeq(keep)
    IN  [n \in 1..Len(idx) |-> Ref(deals[idx[n]])]

\* lines 345-348 and 370-373: the deals of both tracked currencies
Combined(c) ==
    (IF "USD" \in DOMAIN c THEN c["USD"].data ELSE <<>>)
        \o (IF "CAD" \in DOMAIN c THEN c["CAD"].data ELSE <<>>)

\* line 333: the pass is over
PassOver(f) ==
    [IdlePass EXCEPT !.pc = "returned", !.enrichedCount = f.enrichedCount,
                     !.total = f.total, !.outcome = f.outcome]

RECURSIVE RunPass(_, _, _)
\* lines 243-264: the for loop from deal f.i on, up to the next request
\* (line 264) or the end of the pass; r is [frame, cache]
RunPass(f, c, smc) ==
    IF f.i > Len(f.steamDeals) THEN [frame |-> PassOver(f), cache |-> c]
    ELSE LET deal == f.steamDeals[f.i]
         IN  IF HasRealMeta(smc, deal.steamAppID)
             THEN RunPass([f EXCEPT !.i = @ + 1, !.enrichedCount = @ + 1,
                                    !.outcome = "cached"],
                          SetMeta(c, deal, smc[deal.steamAppID]), smc)
             ELSE [frame |-> [f EXCEPT !.pc = "request", !.attempts = 1],
                   cache |-> c]

\* lines 222-264: enrichWithSteamData(deals) up to its first await
EnrichCall(w, deals, smc) ==
    LET steamDeals == SteamDealsOf(deals, smc)
        f0 == [IdlePass EXCEPT !.steamDeals = steamDeals, !.i = 1,
                               !.total = Len(steamDeals)]
        r == RunPass(f0, w.cache, smc)
    IN  IF Len(steamDeals) = 0 THEN w
        ELSE [w EXCEPT !.enrich = [w.enrich EXCEPT ![NextPass(w.enrich)] = r.frame],
                       !.cache = r.cache]

\* a bug: the entry is rebuilt from the deals that match
PatchCaches_Rebuilds(c, id, meta) ==
    [cur \in DOMAIN c |->
        LET hit(d) == d.steamAppID = id
            hits == SelectSeq(c[cur].data, hit)
        IN  IF Len(hits) = 0 THEN c[cur]
            ELSE [c[cur] EXCEPT !.data =
                    [k \in 1..Len(hits) |-> [hits[k] EXCEPT !.steamMeta = meta]]]]

\* lines 288-296: the first deal with that Steam id in each tracked currency
PatchCaches(c, id, meta) ==
    [cur \in DOMAIN c |->
        IF cur \in { CURRENCIES[n] : n \in 1..Len(CURRENCIES) }
        THEN [c[cur] EXCEPT !.data =
                [k \in 1..Len(c[cur].data) |->
                    IF /\ c[cur].data[k].steamAppID = id
                       /\ \A j \in 1..(k-1) : c[cur].data[j].steamAppID # id
                    THEN [c[cur].data[k] EXCEPT !.steamMeta = meta]
                    ELSE c[cur].data[k]]]
        ELSE c[cur]]

\* lines 269-283: the metadata of an answer ("present": info.success with
\* data; "null": no info for the id, or success false)
MetaOf(info) == IF info = "success" THEN "present" ELSE "null"

Min(a, b) == IF a <= b THEN a ELSE b

\* a bug: the delay is not capped
Delay_Uncapped(attempts) ==
    IF attempts >= 20 THEN 1000 * 2^20 ELSE 1000 * 2^attempts

\* line 308: Math.min(30000, 1000 * Math.pow(2, attempts)), in ms.  2^5 * 1000
\* is above the cap already: larger powers are not multiplied out.
Delay(attempts) ==
    IF attempts >= 5 THEN 30000 ELSE Min(30000, 1000 * 2^attempts)

\* lines 306-310: sleep before the next attempt
BackOff(f) ==
    [f EXCEPT !.pc = "backoff", !.delay = Delay(f.attempts),
              !.outcome = "retrying"]

\* lines 321-330: after the while loop
AfterWhile(f, outcome) ==
    [f EXCEPT !.pc = "sleep", !.enrichedCount = @ + 1, !.outcome = outcome,
              !.attempts = 0, !.delay = 0]

\* a bug: the error leaves the for loop and ends the pass
OnOtherError_Throws(f) ==
    [IdlePass EXCEPT !.pc = "returned", !.enrichedCount = f.enrichedCount,
                     !.total = f.total, !.outcome = "error"]

\* lines 312-317: any other error ends the retries of this identifier
OnOtherError(f) == AfterWhile(f, "error")

\* a bug: the loop test lets one more attempt through
RetryOrSkip_OneMore(f) ==
    IF f.attempts <= MAX_ATTEMPTS
    THEN [f EXCEPT !.pc = "request", !.attempts = @ + 1, !.delay = 0]
    ELSE AfterWhile(f, "exhausted")

\* line 261 after the backoff sleep: another attempt, or the id is given up
RetryOrSkip(f) ==
    IF f.attempts < MAX_ATTEMPTS
    THEN [f EXCEPT !.pc = "request", !.attempts = @ + 1, !.delay = 0]
    ELSE AfterWhile(f, "exhausted")

---------------------------------------------------------------------------
(* preWarm (158-162), the startup IIFE (338-364) and the timers *)

\* line 161: fetchDeals of every currency of CURRENCIES, in order
RECURSIVE FetchAll(_, _, _, _, _)
FetchAll(w, currencies, storeIDs, smc, t) ==
    IF currencies = <<>> THEN w
    ELSE FetchAll(FetchDealsCall(w, Head(currencies), storeIDs, smc, t),
                  Tail(currencies), storeIDs, smc, t)

\* Promise.all of line 161 resolves: the calls preWarm made have all returned
PreWarmDone(w) == \A g \in w.preWarmCalls : w.fetch[g].pc = "returned"

\* a bug: preWarm is not awaited
Resume_NoWait(w, smc) ==
    IF w.boot = "preWarm"
    THEN [EnrichCall(w, Combined(w.cache), smc) EXCEPT !.boot = "listening"]
    ELSE w

\* lines 341-355: the IIFE goes on in the turn in which preWarm resolves
Resume(w, smc) ==
    IF w.boot = "preWarm" /\ PreWarmDone(w)
    THEN [EnrichCall(w, Combined(w.cache), smc) EXCEPT !.boot = "listening"]
    ELSE w

World ==
    [fetch |-> fetch, cache |-> cache, enrich |-> enrich, boot |-> boot,
     preWarmCalls |-> preWarmCalls]

\* line 161: preWarm is at Promise.all of the calls it is about to make
AtPreWarm ==
    [World EXCEPT !.boot = "preWarm",
                  !.preWarmCalls = NextGen(fetch)..(NextGen(fetch) + Len(CURRENCIES) - 1)]

\* the step leaves the program in w
Becomes(w) ==
    /\ fetch' = w.fetch
    /\ cache' = w.cache
    /\ enrich' = w.enrich
    /\ boot' = w.boot
    /\ preWarmCalls' = w.preWarmCalls

\* no GET /deals was answered in this step
NoResponse ==
    [success |-> FALSE, cached |-> FALSE, currency |-> "", count |-> 0,
     deals |-> <<>>]

\* the harness has recorded nothing: no page request, no raw deal, no delay,
\* no identifier that ended in an error
NothingObserved ==
    [requests |-> <<>>, seen |-> {}, delays |-> <<>>, failed |-> {}]

Init ==
    /\ storeMap = EmptyObj
    /\ defaultStoreIDs = <<>>
    /\ cache = EmptyObj
    /\ steamMetaCache = EmptyObj
    /\ fetch = [g \in 1..MaxCalls |-> IdleFrame]
    /\ enrich = [p \in 1..MaxPasses |-> IdlePass]
    /\ boot = "loadStores"
    /\ preWarmCalls = {}
    /\ now = 0
    /\ nextHourly = CACHE_TTL
    /\ response = NoResponse
    /\ observed = NothingObserved

\* lines 38-48 and 159-161: the store list arrives, preWarm goes on
LoadStoresOk ==
    /\ boot = "loadStores"
    /\ NextGen(fetch) + Len(CURRENCIES) - 1 <= MaxCalls
    /\ \E list \in StoreLists :
         LET sm == StoreMapOf(list)
             ids == DefaultStoreIDsOf(sm)
         IN  /\ storeMap' = sm
             /\ defaultStoreIDs' = ids
             /\ Becomes(Resume(FetchAll(AtPreWarm,
                                        CURRENCIES, ids, steamMetaCache, now),
                               steamMetaCache))
    /\ response' = NoResponse
    /\ UNCHANGED <<steamMetaCache, now, nextHourly>>

\* a bug: the failure comes after storeMap is assigned and before
\* defaultStoreIDs is
LoadStoresFails_HalfDone ==
    /\ boot = "loadStores"
    /\ NextGen(fetch) + Len(CURRENCIES) - 1 <= MaxCalls
    /\ \E list \in StoreLists : storeMap' = StoreMapOf(list)
    /\ Becomes(Resume(FetchAll(AtPreWarm, CURRENCIES,
                               defaultStoreIDs, steamMetaCache, now),
                      steamMetaCache))
    /\ response' = NoResponse
    /\ UNCHANGED <<defaultStoreIDs, steamMetaCache, now, nextHourly>>

\* lines 50-52 and 159-161: the store list request fails, preWarm goes on
LoadStoresFails ==
    /\ boot = "loadStores"
    /\ NextGen(fetch) + Len(CURRENCIES) - 1 <= MaxCalls
    /\ Becomes(Resume(FetchAll(AtPreWarm, CURRENCIES,
                               defaultStoreIDs, steamMetaCache, now),
                      steamMetaCache))
    /\ response' = NoResponse
    /\ UNCHANGED <<storeMap, defaultStoreIDs, steamMetaCache, now, nextHourly>>

\* lines 76-148: a page of the deal list arrives for call g
FetchPage(g, page) ==
    /\ fetch[g].pc = "awaitPage"
    /\ LET f1 == PageArrives(fetch[g], page, storeMap, g)
       IN  Becomes(Resume([World EXCEPT
                             !.fetch = [fetch EXCEPT ![g] = FrameAfter(f1)],
                             !.cache = CacheAfter(cache, f1, steamMetaCache, now)],
                          steamMetaCache))
    /\ response' = NoResponse
    /\ UNCHANGED <<storeMap, defaultStoreIDs, steamMetaCache, now, nextHourly>>

\* lines 76 and 150-152: the page request of call g fails
FetchPageFails(g) ==
    /\ fetch[g].pc = "awaitPage"
    /\ Becomes(Resume([World EXCEPT
                         !.fetch = [fetch EXCEPT ![g] = CatchFetchError(fetch[g])],
                         !.cache = CacheOnError(cache, fetch[g], steamMetaCache, now)],
                      steamMetaCache))
    /\ response' = NoResponse
    /\ UNCHANGED <<storeMap, defaultStoreIDs, steamMetaCache, now, nextHourly>>

\* a change: the tick also runs enrichment over the cached deals
HourlyRefresh_Enriches ==
    /\ now >= nextHourly
    /\ NextGen(fetch) + Len(CURRENCIES) - 1 <= MaxCalls
    /\ NextPass(enrich) <= MaxPasses
    /\ LET w == Resume(FetchAll(World, CURRENCIES, defaultStoreIDs,
                                steamMetaCache, now),
                       steamMetaCache)
       IN  Becomes(EnrichCall(w, Combined(w.cache), steamMetaCache))
    /\ nextHourly' = nextHourly + CACHE_TTL
    /\ response' = NoResponse
    /\ UNCHANGED <<storeMap, defaultStoreIDs, steamMetaCache, now>>

\* a bug: the tick is skipped while an enrichment pass is running
HourlyRefresh_SkipsWhenBusy ==
    /\ now >= nextHourly
    /\ \A p \in 1..MaxPasses : enrich[p].pc \in {"idle", "returned"}
    /\ NextGen(fetch) + Len(CURRENCIES) - 1 <= MaxCalls
    /\ Becomes(Resume(FetchAll(World, CURRENCIES, defaultStoreIDs,
                               steamMetaCache, now),
                      steamMetaCache))
    /\ nextHourly' = nextHourly + CACHE_TTL
    /\ response' = NoResponse
    /\ UNCHANGED <<storeMap, defaultStoreIDs, steamMetaCache, now>>

\* lines 167-169: the hourly timer fires
HourlyRefresh ==
    /\ now >= nextHourly
    /\ NextGen(fetch) + Len(CURRENCIES) - 1 <= MaxCalls
    /\ Becomes(Resume(FetchAll(World, CURRENCIES, defaultStoreIDs,
                               steamMetaCache, now),
                      steamMetaCache))
    /\ nextHourly' = nextHourly + CACHE_TTL
    /\ response' = NoResponse
    /\ UNCHANGED <<storeMap, defaultStoreIDs, steamMetaCache, now>>

\* lines 369-378: the daily timer fires (the model does not count the hours
\* up to it: it may fire at any time)
DailyEnrichment ==
    /\ NextPass(enrich) <= MaxPasses
    /\ Len(Combined(cache)) > 0
    /\ Becomes(EnrichCall(World, Combined(cache), steamMetaCache))
    /\ response' = NoResponse
    /\ UNCHANGED <<storeMap, defaultStoreIDs, steamMetaCache, now, nextHourly>>

\* req.query.currency values a client sends ("" for none), and
\* (req.query.currency || "USD").toUpperCase() of line 180
QueryCurrencies == {"", "cad"}

ToUpperCase(s) == CASE s = "cad" -> "CAD" [] s = "usd" -> "USD" [] OTHER -> s

\* lines 178-196: GET /deals
\* a bug: an entry is expired as soon as it is CACHE_TTL old
GetDeals_EagerExpiry ==
    /\ boot = "listening"
    /\ \E q \in QueryCurrencies :
         LET currency == ToUpperCase(IF q = "" THEN "USD" ELSE q)
             hasEntry == currency \in DOMAIN cache
             isExpired == ~hasEntry \/ now - cache[currency].timestamp >= CACHE_TTL
             wasCached == hasEntry /\ ~isExpired
         IN  /\ isExpired => NextGen(fetch) <= MaxCalls
             /\ Becomes(IF isExpired
                        THEN Resume(FetchDealsCall(World, currency, defaultStoreIDs,
                                                   steamMetaCache, now),
                                    steamMetaCache)
                        ELSE World)
             /\ response' = [success |-> TRUE, cached |-> wasCached,
                             currency |-> currency,
                             count |-> IF hasEntry THEN Len(cache[currency].data) ELSE 0,
                             deals |-> IF hasEntry THEN cache[currency].data ELSE <<>>]
    /\ UNCHANGED <<storeMap, defaultStoreIDs, steamMetaCache, now, nextHourly>>

GetDeals ==
    /\ boot = "listening"
    /\ \E q \in QueryCurrencies :
         LET currency == ToUpperCase(IF q = "" THEN "USD" ELSE q)
             hasEntry == currency \in DOMAIN cache
             isExpired == ~hasEntry \/ now - cache[currency].timestamp > CACHE_TTL
             wasCached == hasEntry /\ ~isExpired
         IN  /\ isExpired => NextGen(fetch) <= MaxCalls
             /\ Becomes(IF isExpired
                        THEN Resume(FetchDealsCall(World, currency, defaultStoreIDs,
                                                   steamMetaCache, now),
                                    steamMetaCache)
                        ELSE World)
             /\ response' = [success |-> TRUE, cached |-> wasCached,
                             currency |-> currency,
                             count |-> IF hasEntry THEN Len(cache[currency].data) ELSE 0,
                             deals |-> IF hasEntry THEN cache[currency].data ELSE <<>>]
    /\ UNCHANGED <<storeMap, defaultStoreIDs, steamMetaCache, now, nextHourly>>

\* lines 264-301: the metadata API answers the request of pass p
EnrichAnswer(p, info) ==
    /\ enrich[p].pc = "request"
    /\ LET f == enrich[p]
           deal == f.steamDeals[f.i]
           meta == MetaOf(info)
       IN  /\ steamMetaCache' = (deal.steamAppID :> meta) @@ steamMetaCache
           /\ cache' = PatchCaches(SetMeta(cache, deal, meta), deal.steamAppID, meta)
           /\ enrich' = [enrich EXCEPT ![p] =
                           AfterWhile(f, IF meta = "null" THEN "absent" ELSE "present")]
    /\ response' = NoResponse
    /\ UNCHANGED <<storeMap, defaultStoreIDs, fetch, boot, preWarmCalls, now, nextHourly>>

\* lines 303-311: the metadata API answers 429 or 403; limit bounds the
\* throttled answers to one identifier
EnrichThrottled(p, limit) ==
    /\ enrich[p].pc = "request"
    /\ enrich[p].attempts <= limit
    /\ enrich' = [enrich EXCEPT ![p] = BackOff(enrich[p])]
    /\ response' = NoResponse
    /\ UNCHANGED <<storeMap, defaultStoreIDs, cache, steamMetaCache, fetch, boot, preWarmCalls,
                   now, nextHourly>>

\* lines 312-317: the request fails in any other way
EnrichFails(p) ==
    /\ enrich[p].pc = "request"
    /\ LET f == enrich[p]
           deal == f.steamDeals[f.i]
       IN  /\ steamMetaCache' = (deal.steamAppID :> "null") @@ steamMetaCache
           /\ cache' = SetMeta(cache, deal, "null")
           /\ enrich' = [enrich EXCEPT ![p] = OnOtherError(f)]
    /\ response' = NoResponse
    /\ UNCHANGED <<storeMap, defaultStoreIDs, fetch, boot, preWarmCalls, now, nextHourly>>

\* line 310: the backoff sleep is over
EnrichBackoffOver(p) ==
    /\ enrich[p].pc = "backoff"
    /\ enrich' = [enrich EXCEPT ![p] = RetryOrSkip(enrich[p])]
    /\ response' = NoResponse
    /\ UNCHANGED <<storeMap, defaultStoreIDs, cache, steamMetaCache, fetch, boot, preWarmCalls,
                   now, nextHourly>>

\* line 330: the sleep between two identifiers is over
EnrichSleepOver(p) ==
    /\ enrich[p].pc = "sleep"
    /\ LET r == RunPass([enrich[p] EXCEPT !.i = @ + 1], cache, steamMetaCache)
       IN  /\ enrich' = [enrich EXCEPT ![p] = r.frame]
           /\ cache' = r.cache
    /\ response' = NoResponse
    /\ UNCHANGED <<storeMap, defaultStoreIDs, steamMetaCache, fetch, boot, preWarmCalls, now,
                   nextHourly>>

\* time passes; a timer that is due fires first
Tick ==
    /\ now < MaxTime
    /\ now < nextHourly
    /\ now' = now + 1
    /\ response' = NoResponse
    /\ UNCHANGED <<storeMap, defaultStoreIDs, cache, steamMetaCache, fetch,
                   enrich, boot, preWarmCalls, nextHourly>>

---------------------------------------------------------------------------
(* The whole program *)

PassStep(p) ==
    \/ \E info \in {"success", "failure"} : EnrichAnswer(p, info)
    \/ EnrichThrottled(p, MaxThrottles)
    \/ EnrichFails(p)
    \/ EnrichBackoffOver(p)
    \/ EnrichSleepOver(p)

Next ==
    \/ LoadStoresOk /\ UNCHANGED observed
    \/ LoadStoresFails /\ UNCHANGED observed
    \/ \E g \in 1..MaxCalls, page \in SystemPages :
          FetchPage(g, page) /\ UNCHANGED observed
    \/ \E g \in 1..MaxCalls : FetchPageFails(g) /\ UNCHANGED observed
    \/ HourlyRefresh /\ UNCHANGED observed
    \/ DailyEnrichment /\ UNCHANGED observed
    \/ GetDeals /\ UNCHANGED observed
    \/ \E p \in 1..MaxPasses : PassStep(p) /\ UNCHANGED observed
    \/ Tick /\ UNCHANGED observed

Spec == Init /\ [][Next]_vars

---------------------------------------------------------------------------
(* The program with a metadata API that does not answer: store directory,  *)
(* aggregations of every caller, reads and the clock.                      *)

NextServe ==
    \/ LoadStoresOk /\ UNCHANGED observed
    \/ LoadStoresFails /\ UNCHANGED observed
    \/ \E g \in 1..MaxCalls, page \in SystemPages :
          FetchPage(g, page) /\ UNCHANGED observed
    \/ \E g \in 1..MaxCalls : FetchPageFails(g) /\ UNCHANGED observed
    \/ HourlyRefresh /\ UNCHANGED observed
    \/ GetDeals /\ UNCHANGED observed
    \/ Tick /\ UNCHANGED observed

SpecServe == Init /\ [][NextServe]_vars

---------------------------------------------------------------------------
(* One aggregation under test: the first call of preWarm (USD) is answered *)
(* with every page of AllPages, and the harness records the page numbers   *)
(* it asks for and the raw deals it is given.                              *)

\* the call under test is the first call made
Watched == NextGen([g \in 1..MaxCalls |-> IdleFrame])

\* the page request the watched call made in this step, if any
RequestsAfter ==
    IF /\ fetch'[Watched].pc = "awaitPage"
       /\ \/ fetch[Watched].pc # "awaitPage"
          \/ fetch'[Watched].page # fetch[Watched].page
    THEN Append(observed.requests, fetch'[Watched].page)
    ELSE observed.requests

NextAggregate ==
    \/ LoadStoresOk /\ observed' = [observed EXCEPT !.requests = RequestsAfter]
    \/ LoadStoresFails /\ observed' = [observed EXCEPT !.requests = RequestsAfter]
    \/ \E page \in AllPages :
          /\ FetchPage(Watched, page)
          /\ observed' = [observed EXCEPT
                            !.requests = RequestsAfter,
                            !.seen = @ \cup { page[k] : k \in 1..Len(page) }]
    \/ FetchPageFails(Watched) /\ observed' = [observed EXCEPT !.requests = RequestsAfter]

SpecAggregate == Init /\ [][NextAggregate]_vars

---------------------------------------------------------------------------
(* The startup enrichment pass under test: preWarm succeeds, the metadata  *)
(* API throttles as often as it likes, and the harness records the delays  *)
(* the pass sleeps for the identifier it is at.                            *)

BackoffPassStep ==
    \/ \E info \in {"success", "failure"} : EnrichAnswer(1, info) /\ UNCHANGED observed
    \/ /\ EnrichThrottled(1, MAX_ATTEMPTS)
       /\ observed' = [observed EXCEPT !.delays = Append(@, enrich'[1].delay)]
    \/ /\ EnrichFails(1)
       /\ observed' = [observed EXCEPT !.failed =
                         @ \cup {enrich[1].steamDeals[enrich[1].i].steamAppID}]
    \/ EnrichBackoffOver(1) /\ UNCHANGED observed
    \/ EnrichSleepOver(1) /\ observed' = [observed EXCEPT !.delays = <<>>]

NextBackoff ==
    \/ LoadStoresOk /\ UNCHANGED observed
    \/ \E g \in 1..Len(CURRENCIES), page \in SystemPages :
          FetchPage(g, page) /\ UNCHANGED observed
    \/ BackoffPassStep

\* every metadata request is settled (it has a timeout, line 266) and every
\* sleep ends: the pass is weakly fair
SpecBackoff == Init /\ [][NextBackoff]_vars /\ WF_vars(BackoffPassStep)

---------------------------------------------------------------------------
(* The startup pass under test as above, followed by a daily pass that     *)
(* starts when the startup pass is over.                                   *)

NextRetry ==
    \/ LoadStoresOk /\ UNCHANGED observed
    \/ \E g \in 1..Len(CURRENCIES), page \in SystemPages :
          FetchPage(g, page) /\ UNCHANGED observed
    \/ BackoffPassStep
    \/ enrich[1].pc = "returned" /\ DailyEnrichment /\ UNCHANGED observed
    \/ PassStep(2) /\ UNCHANGED observed

SpecRetry == Init /\ [][NextRetry]_vars

---------------------------------------------------------------------------
(* The startup pass over deal lists in which two games have the same Steam *)
(* app id.                                                                 *)

\* pages on which the games 101 and 102 carry the Steam app id 10
SharedIdPages ==
    { <<RawDeal(101, 1, "9.99", 10), RawDeal(102, 1, "9.99", 10)>>,
      <<RawDeal(101, 11, "5.00", 10), RawDeal(102, 15, "9.99", 10)>> }

NextPatch ==
    \/ LoadStoresOk /\ UNCHANGED observed
    \/ \E g \in 1..Len(CURRENCIES), page \in SharedIdPages :
          FetchPage(g, page) /\ UNCHANGED observed
    \/ BackoffPassStep

SpecPatch == Init /\ [][NextPatch]_vars

---------------------------------------------------------------------------
(* The timers: the hourly aggregations and the enrichment passes of a      *)
(* program that receives no request and whose page requests all succeed.   *)

\* the one page every page request is answered with: the games 101 and 102
FullPages == { <<RawDeal(101, 1, "9.99", 10), RawDeal(102, 1, "9.99", 20)>> }

NextSchedule ==
    \/ LoadStoresOk /\ UNCHANGED observed
    \/ \E g \in 1..MaxCalls, page \in FullPages :
          FetchPage(g, page) /\ UNCHANGED observed
    \/ HourlyRefresh /\ UNCHANGED observed
    \/ DailyEnrichment /\ UNCHANGED observed
    \/ \E p \in 1..MaxPasses : PassStep(p) /\ UNCHANGED observed
    \/ Tick /\ UNCHANGED observed

SpecSchedule == Init /\ [][NextSchedule]_vars

---------------------------------------------------------------------------
(* Enrichment passes (the startup pass and the daily ones) over the result *)
(* of a preWarm that succeeds.                                             *)

NextEnrich ==
    \/ LoadStoresOk /\ UNCHANGED observed
    \/ \E g \in 1..Len(CURRENCIES), page \in SystemPages :
          FetchPage(g, page) /\ UNCHANGED observed
    \/ DailyEnrichment /\ UNCHANGED observed
    \/ \E p \in 1..MaxPasses : PassStep(p) /\ UNCHANGED observed

SpecEnrich ==
    /\ Init
    /\ [][NextEnrich]_vars
    /\ \A p \in 1..MaxPasses : WF_vars(PassStep(p) /\ UNCHANGED observed)

---------------------------------------------------------------------------
(* Properties of the aggregation under test (SpecAggregate) *)

\* the deals of the entry of currency cur, as a set
Cached(cur) == { cache[cur].data[k] : k \in 1..Len(cache[cur].data) }

\* the raw deal a cached deal was made of
RawOf(d) == RawDeal(d.gameID, d.storeID, d.salePrice, d.steamAppID)

\* a raw deal with an app id whose store is in the priority table
EligibleRaw(r) ==
    /\ r.steamAppID # NullAppID
    /\ ResolveStore(storeMap, r.storeID) \in DOMAIN STORE_PRIORITY

\* the eligible raw deals of a game given to the watched call so far
SeenOf(game) == { r \in observed.seen : r.gameID = game /\ EligibleRaw(r) }

\* (price, rank) of raw deal a is not above that of raw deal b
NotAbove(a, b) ==
    \/ ParseFloat(a.salePrice) < ParseFloat(b.salePrice)
    \/ /\ ParseFloat(a.salePrice) = ParseFloat(b.salePrice)
       /\ STORE_PRIORITY[ResolveStore(storeMap, a.storeID)]
            <= STORE_PRIORITY[ResolveStore(storeMap, b.storeID)]

\* the deals the watched call holds: in uniqueGames while it runs, in the
\* entry of its currency once it has stored them
Survivors ==
    IF fetch[Watched].pc = "awaitPage"
    THEN { fetch[Watched].uniqueGames[k] : k \in DOMAIN fetch[Watched].uniqueGames }
    ELSE IF fetch[Watched].log = "updated" THEN Cached(fetch[Watched].currency)
    ELSE {}

\* C1: no cache entry holds two deals of the same game.
C1_UniqueGames ==
    \A cur \in DOMAIN cache :
        \A i, j \in 1..Len(cache[cur].data) :
            i # j => cache[cur].data[i].gameID # cache[cur].data[j].gameID

\* C1's case: an entry was stored by a call that was given two eligible raw
\* deals of one game
C1_Witness ==
    /\ fetch[Watched].log = "updated"
    /\ Len(cache["USD"].data) >= 2
    /\ \E game \in {101, 102} : Cardinality(SeenOf(game)) >= 2

\* C2: for every game of which the watched call was given an eligible raw
\* deal, the call holds one survivor, which is one of those deals, and no
\* eligible deal of the game has a lower price, or the same price and a
\* lower store rank: the survivor's price and store depend on the set of
\* deals given, not on their order.
C2_CheapestThenPriority ==
    fetch[Watched].pc = "awaitPage" \/ fetch[Watched].log = "updated" =>
        \A game \in { r.gameID : r \in { x \in observed.seen : EligibleRaw(x) } } :
            \E d \in Survivors :
                /\ d.gameID = game
                /\ RawOf(d) \in SeenOf(game)
                /\ \A r \in SeenOf(game) : NotAbove(RawOf(d), r)
                /\ \A e \in Survivors : e.gameID = game => e = d

\* C2's case (the scenario of the spec): game 101 at steam and fanatical
\* for 9.99 and at the humble store for 5.00; the humble store deal is kept
C2_Witness ==
    /\ fetch[Watched].log = "updated"
    /\ { RawDeal(101, 1, "9.99", 10), RawDeal(101, 15, "9.99", 10),
         RawDeal(101, 11, "5.00", 10) } \subseteq observed.seen
    /\ \E d \in Cached("USD") : RawOf(d) = RawDeal(101, 11, "5.00", 10)

C4_Requests ==
    /\ \A k \in 1..Len(observed.requests) : observed.requests[k] = k - 1
    /\ Len(observed.requests) <= MaxPages
    /\ fetch[Watched].pc = "awaitPage" =>
          /\ Cardinality(DOMAIN fetch[Watched].uniqueGames) < TargetGames
          /\ Len(observed.requests) = fetch[Watched].page + 1
    /\ fetch[Watched].pc = "returned" /\ fetch[Watched].log = "updated" =>
          \/ Len(cache[fetch[Watched].currency].data) >= TargetGames
          \/ Len(observed.requests) = MaxPages

\* every step of the call ends it or takes it to the next page
C4_Progress ==
    fetch[Watched].pc = "awaitPage" /\ fetch'[Watched] # fetch[Watched] =>
        \/ fetch'[Watched].pc = "returned"
        \/ /\ fetch'[Watched].pc = "awaitPage"
           /\ fetch'[Watched].page = fetch[Watched].page + 1

---------------------------------------------------------------------------
(* Properties of the aggregations of the running program (SpecServe) *)

\* an entry without the metadata of its deals
Frozen(entry) ==
    [timestamp |-> entry.timestamp,
     data |-> [k \in 1..Len(entry.data) |->
                 [entry.data[k] EXCEPT !.steamMeta = "any"]]]

\* the step replaces the entry of currency cur
Replaced(cur) ==
    /\ cur \in DOMAIN cache'
    /\ cur \in DOMAIN cache => Frozen(cache'[cur]) # Frozen(cache[cur])

\* the call g ends in this step with all its pages merged
Completes(g) == fetch[g].pc = "awaitPage" /\ fetch'[g].log = "updated"

\* C5: the step in which a page request of a call fails changes no cache
\* entry, and an entry is replaced only in a step in which a call of its
\* currency ends with all its pages merged, by the deals of that call.
C5_NoPartialUpdate ==
    [][ /\ \A g \in 1..MaxCalls :
              fetch[g].pc = "awaitPage" /\ fetch'[g].log = "error" => cache' = cache
        /\ \A cur \in DOMAIN cache' :
              Replaced(cur) =>
                 \E g \in 1..MaxCalls :
                    /\ Completes(g)
                    /\ fetch'[g].currency = cur
                    /\ \A d \in { cache'[cur].data[k] : k \in 1..Len(cache'[cur].data) } :
                          d.gen = g ]_vars

\* C5's case: the hourly call for USD failed after it had merged a page, and
\* the entry preWarm stored is still there
C5_Witness ==
    /\ fetch[3].log = "error" /\ fetch[3].page >= 1 /\ fetch[3].currency = "USD"
    /\ "USD" \in DOMAIN cache
    /\ Len(cache["USD"].data) >= 1
    /\ \A d \in Cached("USD") : d.gen = 1

\* C6: a call without store ids ends in the step in which it is made, which
\* changes no cache entry; no call without store ids has a page request
\* outstanding.
C6_NoStoresNoRequest ==
    /\ [](\A g \in 1..MaxCalls :
             fetch[g].pc = "awaitPage" => Len(fetch[g].storeIDs) > 0)
    /\ [][ \A g \in 1..MaxCalls :
              fetch[g].pc = "idle" /\ fetch'[g].pc # "idle" /\ Len(defaultStoreIDs') = 0
                 => /\ fetch'[g].pc = "returned"
                    /\ fetch'[g].log = "aborted"
                    /\ cache' = cache ]_vars

\* C6's case: the store directory never loaded, a read asked for a refresh
C6_Witness ==
    /\ Len(defaultStoreIDs) = 0
    /\ boot = "listening"
    /\ \A g \in 1..3 : fetch[g].log = "aborted"
    /\ response.success
    /\ cache = EmptyObj

\* a call that ended without storing deals
Failed(g) == fetch[g].log \in {"error", "aborted"}

OneGeneration(deals, currency) ==
    \A k \in 1..Len(deals) :
        /\ deals[k].gen = deals[1].gen
        /\ fetch[deals[k].gen].pc = "returned"
        /\ fetch[deals[k].gen].log = "updated"
        /\ fetch[deals[k].gen].currency = currency

\* C8: the deals of every cache entry, and the deals of every answer of
\* GET /deals, are those of one call of fetchDeals that has ended.
C8_OneGeneration ==
    /\ \A cur \in DOMAIN cache : OneGeneration(cache[cur].data, cur)
    /\ OneGeneration(response.deals, response.currency)

\* C8's case: two calls for one currency were in flight at once; the later
\* one has stored its deals, and a read is answered with them while the
\* earlier one is still in flight with a page merged
C8_Witness ==
    /\ response.success /\ response.count >= 1
    /\ \E g, h \in 1..MaxCalls :
          /\ h < g
          /\ fetch[g].currency = response.currency
          /\ fetch[h].currency = response.currency
          /\ response.deals[1].gen = g
          /\ fetch[h].pc = "awaitPage" /\ fetch[h].page >= 1
          /\ DOMAIN fetch[h].uniqueGames # {}

---------------------------------------------------------------------------
(* Properties of the enrichment pass under test (SpecBackoff) *)

\* C9 as claimed: the delays are 1000, 2000, 4000, ... ms, capped at 30000.
C9_StartsAtOneUnit ==
    \A k \in 1..Len(observed.delays) :
        observed.delays[k] = IF k >= 6 THEN 30000 ELSE Min(30000, 1000 * 2^(k-1))

\* C9 as amended: the delays slept for one identifier are 2000, 4000, 8000,
\* 16000 ms and then 30000 ms, the cap, every time: they never decrease.
C9_StartsAtTwoUnits ==
    \A k \in 1..Len(observed.delays) :
        /\ observed.delays[k] = IF k >= 5 THEN 30000 ELSE Min(30000, 2000 * 2^(k-1))
        /\ observed.delays[k] <= 30000
        /\ k > 1 => observed.delays[k-1] <= observed.delays[k]

\* C9's case: every attempt for an identifier was throttled
C9_Witness ==
    /\ Len(observed.delays) = MAX_ATTEMPTS
    /\ observed.delays[1] = 2000
    /\ observed.delays[MAX_ATTEMPTS] = 30000

\* the identifier pass 1 is at
CurrentID == enrich[1].steamDeals[enrich[1].i].steamAppID

\* a terminal error marks the identifier absent, an answer with data marks
\* it present, and in both cases, as when the retries are used up, the pass
\* goes on to the sleep of line 330 with its list of deals as it was
C10_Step ==
    /\ enrich[1].pc = "request" /\ enrich'[1].outcome = "error" =>
          /\ steamMetaCache'[CurrentID] = "null"
          /\ enrich'[1].pc = "sleep"
    /\ enrich[1].pc = "request" /\ enrich'[1].outcome = "present" =>
          /\ steamMetaCache'[CurrentID] = "present"
          /\ enrich'[1].pc = "sleep"
    /\ enrich[1].pc = "backoff" /\ enrich'[1].outcome = "exhausted" =>
          /\ enrich'[1].pc = "sleep"
          /\ steamMetaCache' = steamMetaCache
    /\ enrich'[1].pc = "sleep" =>
          /\ enrich'[1].steamDeals = enrich[1].steamDeals
          /\ enrich'[1].i = enrich[1].i

\* C10: an identifier that ends in a terminal error is marked absent, one
\* whose fetch succeeds is marked present, and a pass that was started
\* comes to its end with every identifier of its list gone through.
C10_Isolation ==
    /\ [][C10_Step]_vars
    /\ (enrich[1].pc \notin {"idle", "returned"})
          ~> (enrich[1].pc = "returned" /\ enrich[1].enrichedCount = enrich[1].total)

\* C10's case: the pass is over, its first identifier (10) ended in an
\* error and is absent, its second (20) is present
C10_Witness ==
    /\ enrich[1].pc = "returned"
    /\ enrich[1].total = 2 /\ enrich[1].enrichedCount = 2
    /\ observed.failed = {10}
    /\ steamMetaCache = (10 :> "null") @@ (20 :> "present")

---------------------------------------------------------------------------
(* Properties of a pass and the pass after it (SpecRetry) *)

\* the Steam ids of the cached deals of the tracked currencies
CachedIDs == { Combined(cache)[k].steamAppID : k \in 1..Len(Combined(cache)) }

\* the Steam ids a pass frame holds
IDsOf(f) == { f.steamDeals[k].steamAppID : k \in 1..Len(f.steamDeals) }

\* the retries of the identifier pass 1 is at are used up in this step
Exhausts == enrich[1].pc = "backoff" /\ enrich'[1].outcome = "exhausted"

\* C11: a pass makes at most MAX_ATTEMPTS requests for one identifier; when
\* all of them are throttled the identifier is skipped and steamMetaCache is
\* not written, so that the identifier stays unknown, and the pass that
\* starts next selects every cached identifier that is unknown.
C11_ExhaustedStaysUnknown ==
    /\ [](/\ enrich[1].attempts <= MAX_ATTEMPTS
          /\ Len(observed.delays) <= MAX_ATTEMPTS)
    /\ [][ /\ Exhausts =>
                /\ Len(observed.delays) = MAX_ATTEMPTS
                /\ steamMetaCache' = steamMetaCache
                /\ CurrentID \notin DOMAIN steamMetaCache'
                /\ enrich'[1].pc = "sleep"
           /\ enrich[2].pc = "idle" /\ enrich'[2].pc # "idle" =>
                \A id \in CachedIDs :
                    id \notin DOMAIN steamMetaCache => id \in IDsOf(enrich'[2]) ]_vars

\* C11's case: the startup pass is over, every request for identifier 10 was
\* throttled and 10 is unknown; the daily pass has a request for 10 out
C11_Witness ==
    /\ enrich[1].pc = "returned" /\ enrich[1].enrichedCount = 2
    /\ 10 \notin DOMAIN steamMetaCache
    /\ enrich[2].pc = "request"
    /\ enrich[2].steamDeals[enrich[2].i].steamAppID = 10

---------------------------------------------------------------------------
(* Properties of the patch of the cached deals (SpecPatch) *)

\* pass p resolves the identifier it is at in this step: an answer, or an
\* error that is not a throttling status
Resolves(p) ==
    /\ enrich[p].pc = "request"
    /\ enrich'[p].outcome \in {"present", "absent", "error"}

\* the identifier pass p is at
IDAt(p) == enrich[p].steamDeals[enrich[p].i].steamAppID

\* C12: the step that resolves an identifier writes the result to
\* steamMetaCache and leaves every cached deal with that identifier, in
\* every currency that has an entry, with the result as its steamMeta.
C12_EveryMatchPatched ==
    [][ \A p \in 1..MaxPasses :
           Resolves(p) =>
              /\ IDAt(p) \in DOMAIN steamMetaCache'
              /\ \A cur \in DOMAIN cache' :
                    \A k \in 1..Len(cache'[cur].data) :
                       cache'[cur].data[k].steamAppID = IDAt(p) =>
                          cache'[cur].data[k].steamMeta = steamMetaCache'[IDAt(p)] ]_vars

---------------------------------------------------------------------------
(* Properties of concurrent enrichment passes (SpecEnrich) *)

\* a step of enrichment only: no call of fetchDeals is made or goes on
EnrichmentOnly == fetch' = fetch /\ enrich' # enrich

\* C13: a step of enrichWithSteamData leaves the currencies that have an
\* entry, the timestamp of every entry and, but for steamMeta, the deals of
\* every entry and their order as they are.
C13_OnlyMetaChanges ==
    [][ EnrichmentOnly =>
           /\ DOMAIN cache' = DOMAIN cache
           /\ \A cur \in DOMAIN cache : Frozen(cache'[cur]) = Frozen(cache[cur]) ]_vars

\* C13's case: a pass has written the metadata of identifier 20 into the
\* second deal of the USD entry preWarm stored
C13_Witness ==
    /\ "USD" \in DOMAIN cache
    /\ Len(cache["USD"].data) = 2
    /\ cache["USD"].data[2].steamAppID = 20
    /\ cache["USD"].data[2].steamMeta = "present"
    /\ cache["USD"].timestamp = 0
    /\ \E p \in 1..MaxPasses : enrich[p].enrichedCount >= 2

---------------------------------------------------------------------------
(* Properties of the read path and of the startup (SpecServe) *)

\* the entry of currency cur is there and not older than CACHE_TTL at time t
Fresh(c, cur, t) == cur \in DOMAIN c /\ t - c[cur].timestamp <= CACHE_TTL

\* the answer in this state is that of a read of the cache of this state
AnswersFromCache ==
    response.success =>
        /\ response.cached = Fresh(cache, response.currency, now)
        /\ response.count = Len(response.deals)
        /\ response.deals = IF response.currency \in DOMAIN cache
                            THEN cache[response.currency].data ELSE <<>>

\* the calls of fetchDeals made in this step
CallsMade == { g \in 1..MaxCalls : fetch[g].pc = "idle" /\ fetch'[g].pc # "idle" }

\* a read changes nothing but the calls it makes: one call for its currency
\* when the entry is missing or expired, none otherwise
RefreshesWhenStale ==
    response'.success =>
        /\ cache' = cache
        /\ \A g \in 1..MaxCalls : g \notin CallsMade => fetch'[g] = fetch[g]
        /\ IF Fresh(cache, response'.currency, now)
           THEN CallsMade = {}
           ELSE /\ Cardinality(CallsMade) = 1
                /\ \A g \in CallsMade : fetch'[g].currency = response'.currency

---------------------------------------------------------------------------
(* Properties of the timers (SpecSchedule) *)

\* the hourly timer fires in this step
HourlyTick == nextHourly' # nextHourly

\* call g was made in this step for currency cur with the default store ids
\* (those of the end of the step: loadStores sets them before preWarm calls)
StartedFor(g, cur) ==
    /\ fetch[g].pc = "idle"
    /\ fetch'[g].currency = cur
    /\ IF Len(defaultStoreIDs') = 0
       THEN fetch'[g].log = "aborted"
       ELSE /\ fetch'[g].pc = "awaitPage"
            /\ fetch'[g].page = 0
            /\ fetch'[g].storeIDs = defaultStoreIDs'

\* the tick makes one call per tracked currency and touches nothing else
TickStartsAll ==
    HourlyTick =>
        /\ Cardinality(CallsMade) = Len(CURRENCIES)
        /\ \A k \in 1..Len(CURRENCIES) :
              StartedFor(NextGen(fetch) + k - 1, CURRENCIES[k])
        /\ \A g \in 1..MaxCalls : g \notin CallsMade => fetch'[g] = fetch[g]
        /\ enrich' = enrich
        /\ cache' = cache

\* a tick that is due can fire whatever the passes and the calls are at
\* (the model has room for MaxCalls calls)
TickNeverBlocked ==
    now >= nextHourly /\ NextGen(fetch) + Len(CURRENCIES) - 1 <= MaxCalls
        => ENABLED HourlyRefresh

\* C15: every tick of the hourly timer makes one call of fetchDeals per
\* tracked currency with the default store ids, whatever enrichment passes
\* and earlier calls are doing and without any request being received.
C15_HourlyAggregation == []TickNeverBlocked /\ [][TickStartsAll]_vars

\* C15's case: the tick has just made the calls 3 (USD) and 4 (CAD) while
\* the startup pass sleeps in a backoff
C15_Witness ==
    /\ nextHourly = 2 * CACHE_TTL
    /\ enrich[1].pc = "backoff"
    /\ fetch[3].pc = "awaitPage" /\ fetch[3].page = 0 /\ fetch[3].currency = "USD"
    /\ fetch[4].pc = "awaitPage" /\ fetch[4].page = 0 /\ fetch[4].currency = "CAD"

\* the passes started in this step
PassesStarted == { p \in 1..MaxPasses : enrich[p].pc = "idle" /\ enrich'[p].pc # "idle" }

\* the Steam ids of the cached deals of c whose metadata smc lacks
Missing(c, smc) ==
    { Combined(c)[k].steamAppID : k \in 1..Len(Combined(c)) }
        \ ({NullAppID} \cup { id \in DOMAIN smc : HasRealMeta(smc, id) })

\* C16 as claimed: the tick of every TTL period starts an enrichment pass
\* over the cached deals when the metadata of one of them is missing.
C16_HourlyEnrichment ==
    [][ HourlyTick /\ boot = "listening" /\ NextPass(enrich) <= MaxPasses
          /\ Missing(cache, steamMetaCache) # {}
        => PassesStarted # {} ]_vars

\* C16 as amended: the tick of a TTL period starts no enrichment pass; a
\* pass is started by the startup, once preWarm is over, or by the daily
\* timer, in a step of its own, and holds the cached identifiers whose
\* metadata is missing.
C16_DailyEnrichmentOnly ==
    [][ /\ HourlyTick => PassesStarted = {}
        /\ \A p \in PassesStarted :
              /\ \/ boot = "preWarm" /\ boot' = "listening"
                 \/ /\ boot' = boot /\ fetch' = fetch /\ cache' = cache
                    /\ now' = now /\ nextHourly' = nextHourly
              /\ IDsOf(enrich'[p]) = Missing(cache', steamMetaCache) ]_vars

\* C16's case: the tick of hour 1 has stored new deals for USD, the metadata
\* of identifier 10 is missing, an hour has gone by and no pass has been
\* started since the startup pass, which is over
C16_Witness ==
    /\ now = 2 /\ nextHourly = 2 * CACHE_TTL
    /\ "USD" \in DOMAIN cache
    /\ cache["USD"].data[1].gen = 3 /\ cache["USD"].timestamp = 1
    /\ cache["USD"].data[1].steamAppID = 10
    /\ cache["USD"].data[1].steamMeta = "null"
    /\ 10 \in Missing(cache, steamMetaCache)
    /\ enrich[1].pc = "returned"
    /\ enrich[2].pc = "idle"

---------------------------------------------------------------------------
(* Properties of the startup and of the store directory (SpecServe) *)

\* while the store list is loading preWarm has made no call and no page
\* request is out; reads are answered and passes run only once the server
\* listens, and then the calls of preWarm are all over
StartupOrder ==
    /\ boot = "loadStores" =>
          /\ preWarmCalls = {}
          /\ \A g \in 1..MaxCalls : fetch[g].pc # "awaitPage"
          /\ cache = EmptyObj
    /\ boot # "listening" =>
          /\ \A p \in 1..MaxPasses : enrich[p].pc = "idle"
          /\ ~response.success
    /\ boot = "listening" =>
          \A g \in preWarmCalls : fetch[g].pc = "returned"

\* the step in which loadStores is over makes the calls of preWarm, one per
\* tracked currency, all of them before any of their pages is answered
StartsTogether ==
    boot = "loadStores" /\ boot' # "loadStores" =>
        /\ preWarmCalls' = CallsMade
        /\ Cardinality(CallsMade) = Len(CURRENCIES)
        /\ \A k \in 1..Len(CURRENCIES) :
              StartedFor(NextGen(fetch) + k - 1, CURRENCIES[k])

\* C17: loadStores is over, with or without a store list, before preWarm
\* makes a call; preWarm then makes the calls of all tracked currencies in
\* one step, so that they are in flight together; reads are answered and
\* the startup pass is started only when every one of them is over.
C17_StartupOrder == []StartupOrder /\ [][StartsTogether]_vars

\* C17's case: the server does not listen yet; the calls of preWarm for USD
\* and CAD are both in flight and each has merged its first page
C17_Witness ==
    /\ boot = "preWarm"
    /\ preWarmCalls = {1, 2}
    /\ fetch[1].pc = "awaitPage" /\ fetch[1].page = 1
    /\ fetch[2].pc = "awaitPage" /\ fetch[2].page = 1
    /\ storeMap # EmptyObj

\* the names a store id is accepted for
AcceptedNames == {"steam", "humble store", "fanatical"}

\* defaultStoreIDs holds, once each and in the order of Object.entries, the
\* ids whose name in storeMap is an accepted one
DirectoryInStep ==
    /\ { defaultStoreIDs[k] : k \in 1..Len(defaultStoreIDs) }
          = { id \in DOMAIN storeMap : storeMap[id] \in AcceptedNames }
    /\ \A j, k \in 1..Len(defaultStoreIDs) :
          j < k => defaultStoreIDs[j] < defaultStoreIDs[k]

\* storeMap and defaultStoreIDs change in the same steps only, and a step
\* that ends loadStores without a store list changes neither
DirectoryAtomic ==
    /\ (storeMap' = storeMap) <=> (defaultStoreIDs' = defaultStoreIDs)
    /\ boot = "loadStores" /\ boot' # "loadStores" /\ storeMap' = EmptyObj =>
          storeMap' = storeMap /\ defaultStoreIDs' = defaultStoreIDs

\* C18: a loadStores that fails leaves storeMap and defaultStoreIDs as they
\* were, a loadStores that succeeds sets both in one step, and
\* defaultStoreIDs always holds the ids whose normalized name in storeMap is
\* an accepted one.
C18_DirectoryAtomic == []DirectoryInStep /\ [][DirectoryAtomic]_vars

\* C18's case: loadStores has failed; both are as they were (empty) and the
\* calls of preWarm were made without store ids
C18_Witness ==
    /\ boot # "loadStores"
    /\ storeMap = EmptyObj /\ defaultStoreIDs = <<>>
    /\ preWarmCalls # {}
    /\ \A g \in preWarmCalls : fetch[g].log = "aborted"

---------------------------------------------------------------------------
(* Properties of steamMetaCache under concurrent passes (SpecEnrich) *)

\* C19: steamMetaCache only grows: no step removes an identifier, and no
\* step takes an identifier that is present to absent.
C19_MetadataMonotone ==
    [][ \A id \in DOMAIN steamMetaCache :
           /\ id \in DOMAIN steamMetaCache'
           /\ steamMetaCache[id] = "present" => steamMetaCache'[id] = "present" ]_vars

\* C20: every deal of the entries of the tracked currencies carries what
\* steamMetaCache holds for its Steam id, and the null marker when
\* steamMetaCache holds nothing for it.
C20_MetaInSync ==
    \A n \in 1..Len(CURRENCIES) :
        CURRENCIES[n] \in DOMAIN cache =>
            \A d \in Cached(CURRENCIES[n]) :
                d.steamMeta = IF d.steamAppID \in DOMAIN steamMetaCache
                              THEN steamMetaCache[d.steamAppID] ELSE "null"

=============================================================================
